---- MODULE Spec2Model ----
(***************************************************************************)
(* Structural-detection engine of the Ulam spiral repository              *)
(* (src/src/primes/goodness.py): gap-tolerant run detection on 1-D        *)
(* sequences, its application along the diagonals, anti-diagonals, rows   *)
(* and columns of a grid, and the coverage score.                         *)
(*                                                                         *)
(* Python arrays are 0-based.  A 1-D array is a TLA+ sequence, whose       *)
(* Python index i is position i + 1.  A matrix is a function from          *)
(* 0..rows-1 to functions from 0..cols-1.  A boolean mask is the set of    *)
(* its true cells <<i, j>>.  A run (start, end) is the tuple               *)
(* <<start, end>> of Python indices, end exclusive.                        *)
(***************************************************************************)
EXTENDS Integers, Sequences, FiniteSets

VARIABLES
    pc,             \* position of the caller / of ulam_goodness
    array,          \* 1-D input of find_runs_1d
    runs,           \* list returned by the last find_runs_1d call
    prev_runs,      \* list returned by the call before it
    matrix,         \* 2-D input grid
    gap_tolerance,  \* parameter gap_tolerance
    min_run,        \* parameter min_run
    diag_mask,      \* `mask` of detect_diagonal_segments
    flipped_mask,   \* `flipped_mask` of detect_diagonal_segments
    hv_mask,        \* `mask` of detect_horizontal_vertical_segments
    vertical_mask,  \* `vertical_mask` of detect_horizontal_vertical_segments
    mask,           \* `mask` of ulam_goodness after the |=
    score,          \* returned score, as <<numerator, denominator>>
    first_mask,     \* mask returned for the grid before it was mirrored
    mirrored        \* TRUE once the caller has mirrored the grid

vars == <<pc, array, runs, prev_runs, matrix, gap_tolerance, min_run,
          diag_mask, flipped_mask, hv_mask, vertical_mask, mask, score,
          first_mask, mirrored>>

(***************************************************************************)
(* Bounds of the model and program constants.                             *)
(***************************************************************************)
MaxLen == 6          \* longest 1-D sequence drawn
MaxGap == 3          \* largest gap_tolerance drawn for 1-D sequences
MaxSide == 3         \* largest number of rows / columns of a drawn grid
MaxOn == 2           \* largest number of "on" cells of a drawn grid
MaxGridGap == 2      \* largest gap_tolerance drawn for grids
MaxMinRun == 3       \* largest min_run drawn for grids
MaxUniformSide == 4  \* largest side of an all-zero / all-ones grid
MaxInvalid == 2      \* parameters of any sign are drawn from -MaxInvalid..MaxInvalid

DefaultGapTolerance == 1
DefaultMinRun == 5

CellValues == {0, 1, 2}

(***************************************************************************)
(* numpy helpers used by find_runs_1d.                                     *)
(***************************************************************************)
Max(a, b) == IF a >= b THEN a ELSE b
Min(a, b) == IF a <= b THEN a ELSE b

\* a[i] for a Python index i, 0 outside the array (zero padding).
At(a, i) == IF 0 <= i /\ i < Len(a) THEN a[i + 1] ELSE 0

\* Binarize with `== 1` in place of `> 0`: the origin marker 2 is off.
BinarizeOnlyOnes(a) == [i \in 1..Len(a) |-> IF a[i] = 1 THEN 1 ELSE 0]

\* (array > 0).astype(int)
Binarize(a) == [i \in 1..Len(a) |-> IF a[i] > 0 THEN 1 ELSE 0]

\* np.ones(n, dtype=int)
Ones(n) == [i \in 1..n |-> 1]

RECURSIVE ConvTerm(_, _, _, _)
\* sum over j <= upto of a[j] * v[m - j]: element m of the full convolution
ConvTerm(a, v, m, upto) ==
    IF upto < 0 THEN 0
    ELSE At(a, upto) * At(v, m - upto) + ConvTerm(a, v, m, upto - 1)

\* np.convolve(a, v, mode="same"): the operands are swapped when v is the
\* longer one, the full convolution has length n1 + n2 - 1, and "same"
\* keeps the n1 = max(len) elements starting at offset (n2 - 1) div 2.
ConvolveSame(a, v) ==
    LET long == IF Len(v) > Len(a) THEN v ELSE a
        short == IF Len(v) > Len(a) THEN a ELSE v
        n1 == Len(long)
        n2 == Len(short)
        n_left == n2 \div 2
        n_right == n2 - n_left - 1
    IN  [t \in 1..n1 |-> ConvTerm(long, short, (t - 1) + n_right, n1 - 1)]

\* np.diff(np.r_[0, smoothed, 0]): element d, 0 <= d <= len(smoothed)
PaddedDiff(smoothed, d) == At(smoothed, d) - At(smoothed, d - 1)

RECURSIVE Where(_, _, _)
\* np.where(diff == value)[0], ascending, from index d upwards
Where(smoothed, value, d) ==
    IF d > Len(smoothed) THEN << >>
    ELSE IF PaddedDiff(smoothed, d) = value
         THEN <<d>> \o Where(smoothed, value, d + 1)
         ELSE Where(smoothed, value, d + 1)

\* list(zip(starts, ends))
Zip(starts, ends) ==
    [i \in 1..Min(Len(starts), Len(ends)) |-> <<starts[i], ends[i]>>]

\* Smooth with a kernel of gap_tolerance cells instead of gap_tolerance + 1.
SmoothShortKernel(bin, g) ==
    IF g > 0
    THEN LET conv == ConvolveSame(bin, Ones(g))
         IN  [i \in 1..Len(conv) |-> IF conv[i] > 0 THEN 1 ELSE 0]
    ELSE bin

\* lines 44-49: the smoothed sequence
Smooth(bin, g) ==
    IF g > 0
    THEN LET conv == ConvolveSame(bin, Ones(g + 1))
         IN  [i \in 1..Len(conv) |-> IF conv[i] > 0 THEN 1 ELSE 0]
    ELSE bin

find_runs_1d(a, g) ==
    LET bin == Binarize(a)
    IN  IF Len(bin) = 0 THEN << >>
        ELSE LET smoothed == Smooth(bin, g)
             IN  Zip(Where(smoothed, 1, 0), Where(smoothed, -1, 0))

\* array[::-1]
Reverse(a) == [i \in 1..Len(a) |-> a[Len(a) + 1 - i]]

(***************************************************************************)
(* Specification of find_runs_1d on its own: a caller draws a sequence    *)
(* and a gap_tolerance, calls find_runs_1d, then calls it again on the    *)
(* reversed sequence.                                                      *)
(***************************************************************************)
RECURSIVE SeqsOfLen(_)
SeqsOfLen(n) ==
    IF n = 0 THEN {<< >>}
    ELSE {Append(s, x) : s \in SeqsOfLen(n - 1), x \in CellValues}

Sequences1D == UNION {SeqsOfLen(n) : n \in 0..MaxLen}

NoMatrix == [i \in {} |-> 0]

IdleGrid ==
    /\ matrix = NoMatrix
    /\ min_run = DefaultMinRun
    /\ diag_mask = {}
    /\ flipped_mask = {}
    /\ hv_mask = {}
    /\ vertical_mask = {}
    /\ mask = {}
    /\ score = <<0, 1>>
    /\ first_mask = {}
    /\ mirrored = FALSE

InitRuns ==
    /\ pc = "ready"
    /\ array \in Sequences1D
    /\ gap_tolerance \in 0..MaxGap
    /\ runs = << >>
    /\ prev_runs = << >>
    /\ IdleGrid

gridVars == <<matrix, min_run, diag_mask, flipped_mask, hv_mask,
              vertical_mask, mask, score, first_mask, mirrored>>

CallFindRuns ==
    /\ pc = "ready"
    /\ runs' = find_runs_1d(array, gap_tolerance)
    /\ pc' = "returned"
    /\ UNCHANGED <<array, prev_runs, gap_tolerance, gridVars>>

CallFindRunsReversed ==
    /\ pc = "returned"
    /\ array' = Reverse(array)
    /\ prev_runs' = runs
    /\ runs' = find_runs_1d(array', gap_tolerance)
    /\ pc' = "returned_reversed"
    /\ UNCHANGED <<gap_tolerance, gridVars>>

NextRuns == CallFindRuns \/ CallFindRunsReversed

SpecRuns == InitRuns /\ [][NextRuns]_vars

(***************************************************************************)
(* Grids: matrix.shape, np.diag, np.fliplr, rows and columns.              *)
(***************************************************************************)
\* matrix.shape[0]
Rows(m) == Cardinality(DOMAIN m)

\* matrix.shape[1]
Cols(m) == IF Rows(m) = 0 THEN 0 ELSE Cardinality(DOMAIN m[0])

\* np.diag(matrix, k=k): the cells (i, i + k) for k >= 0, (i - k, i) for k < 0
Diag(m, k) ==
    LET len == IF k >= 0 THEN Max(0, Min(Rows(m), Cols(m) - k))
               ELSE Max(0, Min(Rows(m) + k, Cols(m)))
    IN  [n \in 1..len |-> IF k >= 0 THEN m[n - 1][n - 1 + k]
                          ELSE m[n - 1 - k][n - 1]]

\* np.fliplr(matrix)
FlipLR(m) ==
    [i \in 0..(Rows(m) - 1) |-> [j \in 0..(Cols(m) - 1) |-> m[i][Cols(m) - 1 - j]]]

\* np.fliplr(mask) for a mask of a grid with `cols` columns
FlipMask(msk, cols) == {<<c[1], cols - 1 - c[2]>> : c \in msk}

\* matrix[k, :]
RowOf(m, k) == [n \in 1..Cols(m) |-> m[k][n - 1]]

\* matrix[:, k]
ColumnOf(m, k) == [n \in 1..Rows(m) |-> m[n - 1][k]]

\* the bounds check with `<=` in place of `<`
InBoundsInclusive(c, rows, cols) ==
    0 <= c[1] /\ c[1] <= rows /\ 0 <= c[2] /\ c[2] <= cols

\* if 0 <= i < rows and 0 <= j < cols
InBounds(c, rows, cols) ==
    0 <= c[1] /\ c[1] < rows /\ 0 <= c[2] /\ c[2] < cols

\* lines 97-102: diagonal index idx of diagonal k as matrix coordinates
DiagCoord(k, idx) == IF k >= 0 THEN <<idx, idx + k>> ELSE <<idx - k, idx>>

(***************************************************************************)
(* detect_diagonal_segments                                                *)
(***************************************************************************)
\* the min_run filter with `<=` in place of `<`
TooShortOrEqual(start, end, mr) == end - start <= mr

\* lines 93, 118, 169, 186: if end - start < min_run: continue
TooShort(start, end, mr) == end - start < mr

RECURSIVE MainRunLoop(_, _, _, _, _, _, _)
\* lines 92-104: for start, end in runs (from the n-th run on)
MainRunLoop(msk, rs, n, k, mr, rows, cols) ==
    IF n > Len(rs) THEN msk
    ELSE IF TooShort(rs[n][1], rs[n][2], mr)
         THEN MainRunLoop(msk, rs, n + 1, k, mr, rows, cols)
         ELSE MainRunLoop(
                 msk \cup {c \in {DiagCoord(k, idx) : idx \in rs[n][1]..(rs[n][2] - 1)} :
                              InBounds(c, rows, cols)},
                 rs, n + 1, k, mr, rows, cols)

RECURSIVE MainDiagonalLoop(_, _, _, _, _)
\* lines 88-104: for k in range(-rows + 1, cols), from diagonal k on
MainDiagonalLoop(msk, k, m, g, mr) ==
    IF k >= Cols(m) THEN msk
    ELSE MainDiagonalLoop(
            MainRunLoop(msk, find_runs_1d(Diag(m, k), g), 1, k, mr, Rows(m), Cols(m)),
            k + 1, m, g, mr)

RECURSIVE AntiRunLoop(_, _, _, _, _, _, _)
\* lines 117-129: for start, end in runs (from the n-th run on)
AntiRunLoop(fmsk, rs, n, k, mr, rows, cols) ==
    IF n > Len(rs) THEN fmsk
    ELSE IF TooShort(rs[n][1], rs[n][2], mr)
         THEN AntiRunLoop(fmsk, rs, n + 1, k, mr, rows, cols)
         ELSE AntiRunLoop(
                 fmsk \cup {c \in {DiagCoord(k, idx) : idx \in rs[n][1]..(rs[n][2] - 1)} :
                               InBounds(c, rows, cols)},
                 rs, n + 1, k, mr, rows, cols)

RECURSIVE AntiDiagonalLoop(_, _, _, _, _)
\* lines 113-129: for k in range(-rows + 1, cols) over the flipped matrix
AntiDiagonalLoop(fmsk, k, fm, g, mr) ==
    IF k >= Cols(fm) THEN fmsk
    ELSE AntiDiagonalLoop(
            AntiRunLoop(fmsk, find_runs_1d(Diag(fm, k), g), 1, k, mr, Rows(fm), Cols(fm)),
            k + 1, fm, g, mr)

\* line 131 without the flip back: mask |= flipped_mask
MergeUnflipped(msk, fmsk, cols) == msk \cup fmsk

\* line 131: mask |= np.fliplr(flipped_mask)
MergeFlipped(msk, fmsk, cols) == msk \cup FlipMask(fmsk, cols)

(***************************************************************************)
(* detect_horizontal_vertical_segments                                     *)
(***************************************************************************)
RECURSIVE RowRunLoop(_, _, _, _, _, _, _)
\* lines 168-176: for start, end in runs (from the n-th run on)
RowRunLoop(msk, rs, n, k, mr, rows, cols) ==
    IF n > Len(rs) THEN msk
    ELSE IF TooShort(rs[n][1], rs[n][2], mr)
         THEN RowRunLoop(msk, rs, n + 1, k, mr, rows, cols)
         ELSE RowRunLoop(
                 msk \cup {c \in {<<k, idx>> : idx \in rs[n][1]..(rs[n][2] - 1)} :
                              InBounds(c, rows, cols)},
                 rs, n + 1, k, mr, rows, cols)

RECURSIVE RowLoop(_, _, _, _, _)
\* lines 165-176: for k in range(0, rows), from row k on
RowLoop(msk, k, m, g, mr) ==
    IF k >= Rows(m) THEN msk
    ELSE RowLoop(
            RowRunLoop(msk, find_runs_1d(RowOf(m, k), g), 1, k, mr, Rows(m), Cols(m)),
            k + 1, m, g, mr)

RECURSIVE ColumnIdxLoopOverwrite(_, _, _, _, _, _)
\* the inner loop with `mask = vertical_mask` in place of `mask |= vertical_mask`
ColumnIdxLoopOverwrite(st, idx, end, k, rows, cols) ==
    IF idx >= end THEN st
    ELSE IF InBounds(<<idx, k>>, rows, cols)
         THEN LET vm == st.vertical_mask \cup {<<idx, k>>}
              IN  ColumnIdxLoopOverwrite([vertical_mask |-> vm, mask |-> vm],
                                         idx + 1, end, k, rows, cols)
         ELSE ColumnIdxLoopOverwrite(st, idx + 1, end, k, rows, cols)

RECURSIVE ColumnIdxLoop(_, _, _, _, _, _)
\* lines 189-194: for idx in range(start, end); st holds mask and
\* vertical_mask, and mask |= vertical_mask runs after every cell set
ColumnIdxLoop(st, idx, end, k, rows, cols) ==
    IF idx >= end THEN st
    ELSE IF InBounds(<<idx, k>>, rows, cols)
         THEN LET vm == st.vertical_mask \cup {<<idx, k>>}
              IN  ColumnIdxLoop([vertical_mask |-> vm, mask |-> st.mask \cup vm],
                                idx + 1, end, k, rows, cols)
         ELSE ColumnIdxLoop(st, idx + 1, end, k, rows, cols)

RECURSIVE ColumnRunLoop(_, _, _, _, _, _, _)
\* lines 185-194: for start, end in runs (from the n-th run on)
ColumnRunLoop(st, rs, n, k, mr, rows, cols) ==
    IF n > Len(rs) THEN st
    ELSE IF TooShort(rs[n][1], rs[n][2], mr)
         THEN ColumnRunLoop(st, rs, n + 1, k, mr, rows, cols)
         ELSE ColumnRunLoop(ColumnIdxLoop(st, rs[n][1], rs[n][2], k, rows, cols),
                            rs, n + 1, k, mr, rows, cols)

RECURSIVE ColumnLoop(_, _, _, _, _)
\* lines 182-194: for k in range(0, cols), from column k on
ColumnLoop(st, k, m, g, mr) ==
    IF k >= Cols(m) THEN st
    ELSE ColumnLoop(
            ColumnRunLoop(st, find_runs_1d(ColumnOf(m, k), g), 1, k, mr, Rows(m), Cols(m)),
            k + 1, m, g, mr)

(***************************************************************************)
(* ulam_goodness                                                           *)
(***************************************************************************)
\* the denominator as rows * cols
CellCount(m) == Rows(m) * Cols(m)

\* lines 229, 233: size = matrix.shape[0]; size * size
SizeSquared(m) == Rows(m) * Rows(m)

(***************************************************************************)
(* Actions: ulam_goodness step by step.  detect_diagonal_segments has      *)
(* returned once pc = "rows", detect_horizontal_vertical_segments once     *)
(* pc = "score".                                                           *)
(***************************************************************************)
runVars == <<array, runs, prev_runs>>

IdleRuns ==
    /\ array = << >>
    /\ runs = << >>
    /\ prev_runs = << >>

\* detect_diagonal_segments, lines 82-104
ScanMainDiagonals ==
    /\ pc = "main"
    /\ diag_mask' = MainDiagonalLoop({}, -Rows(matrix) + 1, matrix,
                                     gap_tolerance, min_run)
    /\ pc' = "anti"
    /\ UNCHANGED <<runVars, matrix, gap_tolerance, min_run, flipped_mask,
                   hv_mask, vertical_mask, mask, score, first_mask, mirrored>>

\* detect_diagonal_segments, lines 110-133
ScanAntiDiagonals ==
    /\ pc = "anti"
    /\ flipped_mask' = AntiDiagonalLoop({}, -Rows(matrix) + 1, FlipLR(matrix),
                                        gap_tolerance, min_run)
    /\ diag_mask' = MergeFlipped(diag_mask, flipped_mask', Cols(matrix))
    /\ pc' = "rows"
    /\ UNCHANGED <<runVars, matrix, gap_tolerance, min_run,
                   hv_mask, vertical_mask, mask, score, first_mask, mirrored>>

\* detect_horizontal_vertical_segments, lines 160-176
ScanRows ==
    /\ pc = "rows"
    /\ hv_mask' = RowLoop({}, 0, matrix, gap_tolerance, min_run)
    /\ pc' = "cols"
    /\ UNCHANGED <<runVars, matrix, gap_tolerance, min_run, diag_mask,
                   flipped_mask, vertical_mask, mask, score, first_mask, mirrored>>

\* detect_horizontal_vertical_segments, lines 181-196
ScanColumns ==
    /\ pc = "cols"
    /\ LET st == ColumnLoop([vertical_mask |-> {}, mask |-> hv_mask], 0, matrix,
                            gap_tolerance, min_run)
       IN  /\ vertical_mask' = st.vertical_mask
           /\ hv_mask' = st.mask
    /\ pc' = "score"
    /\ UNCHANGED <<runVars, matrix, gap_tolerance, min_run, diag_mask,
                   flipped_mask, mask, score, first_mask, mirrored>>

\* ulam_goodness, lines 227-234
Score ==
    /\ pc = "score"
    /\ mask' = diag_mask \cup hv_mask
    /\ score' = <<Cardinality(mask'), SizeSquared(matrix)>>
    /\ pc' = "done"
    /\ UNCHANGED <<runVars, matrix, gap_tolerance, min_run, diag_mask,
                   flipped_mask, hv_mask, vertical_mask, first_mask, mirrored>>

NextGoodness ==
    \/ ScanMainDiagonals
    \/ ScanAntiDiagonals
    \/ ScanRows
    \/ ScanColumns
    \/ Score

\* the state of a call before its first step
Fresh ==
    /\ pc = "main"
    /\ IdleRuns
    /\ diag_mask = {}
    /\ flipped_mask = {}
    /\ hv_mask = {}
    /\ vertical_mask = {}
    /\ mask = {}
    /\ score = <<0, 1>>
    /\ first_mask = {}
    /\ mirrored = FALSE

(***************************************************************************)
(* Drawn grids: rows x cols with at most MaxOn on cells; the cell at the   *)
(* spiral origin (rows div 2, rows div 2) carries the marker 2 when on.    *)
(***************************************************************************)
Cells(rows, cols) == (0..(rows - 1)) \X (0..(cols - 1))

GridOf(rows, cols, on) ==
    [i \in 0..(rows - 1) |->
        [j \in 0..(cols - 1) |->
            IF <<i, j>> \notin on THEN 0
            ELSE IF i = rows \div 2 /\ j = rows \div 2 THEN 2 ELSE 1]]

SparseGrids ==
    UNION {{GridOf(rows, cols, on) :
               on \in {s \in SUBSET Cells(rows, cols) : Cardinality(s) <= MaxOn}} :
            rows \in 1..MaxSide, cols \in 1..MaxSide}

InitGrid ==
    /\ matrix \in SparseGrids
    /\ gap_tolerance \in 0..MaxGridGap
    /\ min_run \in 1..MaxMinRun
    /\ Fresh

SpecGrid == InitGrid /\ [][NextGoodness]_vars

(***************************************************************************)
(* A caller of detect_diagonal_segments that, once the mask is returned,   *)
(* calls it again on the horizontal mirror of the grid.                    *)
(***************************************************************************)
MirrorCall ==
    /\ pc = "rows"
    /\ ~mirrored
    /\ first_mask' = diag_mask
    /\ matrix' = FlipLR(matrix)
    /\ mirrored' = TRUE
    /\ diag_mask' = {}
    /\ flipped_mask' = {}
    /\ pc' = "main"
    /\ UNCHANGED <<runVars, gap_tolerance, min_run, hv_mask, vertical_mask,
                   mask, score>>

NextMirror == ScanMainDiagonals \/ ScanAntiDiagonals \/ MirrorCall

SpecMirror == InitGrid /\ [][NextMirror]_vars

(***************************************************************************)
(* All-zero and all-ones grids.                                            *)
(***************************************************************************)
UniformGrid(rows, cols, v) == [i \in 0..(rows - 1) |-> [j \in 0..(cols - 1) |-> v]]

InitUniform ==
    /\ matrix \in {UniformGrid(rows, cols, v) :
                      rows \in 1..MaxUniformSide, cols \in 1..MaxUniformSide,
                      v \in {0, 1}}
    /\ gap_tolerance \in 0..(MaxUniformSide + 1)
    /\ min_run \in 1..(MaxUniformSide + 1)
    /\ Fresh

SpecUniform == InitUniform /\ [][NextGoodness]_vars

(***************************************************************************)
(* The end-to-end scenario: a 10 x 10 grid whose only on cells are `len`   *)
(* consecutive cells of the main diagonal, from (p, p) on, scored with     *)
(* the default parameters.                                                 *)
(***************************************************************************)
DiagonalStretchGrid(p, len) ==
    [i \in 0..9 |-> [j \in 0..9 |-> IF i = j /\ p <= i /\ i < p + len THEN 1 ELSE 0]]

InitEndToEnd ==
    /\ matrix \in UNION {{DiagonalStretchGrid(p, len) : len \in 1..(10 - p)} :
                            p \in 0..9}
    /\ gap_tolerance = DefaultGapTolerance
    /\ min_run = DefaultMinRun
    /\ Fresh

SpecEndToEnd == InitEndToEnd /\ [][NextGoodness]_vars

(***************************************************************************)
(* Calls with any configuration, valid or not: the functions take          *)
(* gap_tolerance and min_run as plain ints and check neither.              *)
(***************************************************************************)
InitAnyConfiguration ==
    /\ matrix \in {UniformGrid(rows, cols, v) :
                      rows \in 1..MaxUniformSide, cols \in 1..MaxUniformSide,
                      v \in {0, 1}}
    /\ gap_tolerance \in (-MaxInvalid)..MaxInvalid
    /\ min_run \in (-MaxInvalid)..MaxInvalid
    /\ Fresh

SpecAnyConfiguration == InitAnyConfiguration /\ [][NextGoodness]_vars

(***************************************************************************)
(* Properties of find_runs_1d.                                             *)
(***************************************************************************)
Called == pc \in {"returned", "returned_reversed"}

RunSet == {runs[i] : i \in 1..Len(runs)}

OnCells == {i \in 0..(Len(array) - 1) : At(array, i) > 0}

InRun(r, i) == r[1] <= i /\ i < r[2]

SameRun(p, q) == \E r \in RunSet : InRun(r, p) /\ InRun(r, q)

\* p < q are on cells with only off cells between them
Neighbours(p, q) ==
    /\ p \in OnCells /\ q \in OnCells /\ p < q
    /\ \A i \in (p + 1)..(q - 1) : i \notin OnCells

\* C2: for gap_tolerance > 0, two on cells separated by at most gap_tolerance
\* consecutive off cells lie in one run, and two on cells separated by more
\* than gap_tolerance off cells (no on cell between) lie in different runs.
C2_GapBridging ==
    (Called /\ gap_tolerance > 0) =>
        /\ \A p \in OnCells : \E r \in RunSet : InRun(r, p)
        /\ \A p, q \in OnCells :
              Neighbours(p, q) =>
                 IF q - p - 1 <= gap_tolerance
                 THEN SameRun(p, q)
                 ELSE ~SameRun(p, q)

C2_Witness ==
    /\ pc = "returned"
    /\ array = <<1, 0, 1, 0, 0, 1>>
    /\ gap_tolerance = 1
    /\ Len(runs) = 2
    /\ SameRun(0, 2)
    /\ ~SameRun(2, 5)
    /\ \E r \in RunSet : InRun(r, 5)

\* C4: every run [start, end) returned by find_runs_1d for a sequence of
\* length n satisfies 0 <= start < end <= n, for every gap_tolerance >= 0.
C4_RunsWithinSequence ==
    Called => \A r \in RunSet : 0 <= r[1] /\ r[1] < r[2] /\ r[2] <= Len(array)

\* C6: for gap_tolerance > 0 the runs of the reversed sequence are exactly
\* the mirror images [n - end, n - start) of the runs of the sequence.
C6_MirroredRuns ==
    (pc = "returned_reversed" /\ gap_tolerance > 0) =>
        RunSet = {<<Len(array) - prev_runs[i][2], Len(array) - prev_runs[i][1]>> :
                     i \in 1..Len(prev_runs)}

\* the maximal contiguous stretches of cells > 0, as half-open intervals
MaximalStretches ==
    {<<s, e>> \in (0..Len(array)) \X (0..Len(array)) :
        /\ s < e
        /\ \A i \in s..(e - 1) : At(array, i) > 0
        /\ ~(At(array, s - 1) > 0)
        /\ ~(At(array, e) > 0)}

\* C7: with gap_tolerance = 0 find_runs_1d returns exactly the maximal
\* contiguous stretches of cells > 0, in strictly ascending order, no two
\* overlapping or touching; an empty sequence yields no runs for any
\* gap_tolerance.
C7_ExactRunsWithoutTolerance ==
    Called =>
        /\ gap_tolerance = 0 =>
              /\ RunSet = MaximalStretches
              /\ Len(runs) = Cardinality(MaximalStretches)
              /\ \A i \in 1..(Len(runs) - 1) : runs[i][2] < runs[i + 1][1]
        /\ Len(array) = 0 => runs = << >>

C7_Witness ==
    /\ pc = "returned"
    /\ gap_tolerance = 0
    /\ array = <<1, 0, 2>>
    /\ runs = << <<0, 1>>, <<2, 3>> >>

(***************************************************************************)
(* Properties of the grid scans.  The lines of a direction are described   *)
(* from the grid itself: cell idx of line k, the line's length, its        *)
(* sequence of values, and the mask each direction has written.            *)
(***************************************************************************)
Directions == {"main", "anti", "row", "col"}

OnGrid(c) ==
    /\ c[1] \in 0..(Rows(matrix) - 1)
    /\ c[2] \in 0..(Cols(matrix) - 1)

LineIds(dir) ==
    CASE dir \in {"main", "anti"} -> (1 - Rows(matrix))..(Cols(matrix) - 1)
      [] dir = "row" -> 0..(Rows(matrix) - 1)
      [] dir = "col" -> 0..(Cols(matrix) - 1)

\* main: col - row = k; anti: the same line seen in the mirror
CellAt(dir, k, idx) ==
    CASE dir = "main" -> IF k >= 0 THEN <<idx, idx + k>> ELSE <<idx - k, idx>>
      [] dir = "anti" -> IF k >= 0 THEN <<idx, Cols(matrix) - 1 - idx - k>>
                         ELSE <<idx - k, Cols(matrix) - 1 - idx>>
      [] dir = "row" -> <<k, idx>>
      [] dir = "col" -> <<idx, k>>

LineLen(dir, k) ==
    Cardinality({idx \in 0..(Max(Rows(matrix), Cols(matrix)) - 1) :
                    OnGrid(CellAt(dir, k, idx))})

LineSeq(dir, k) ==
    [n \in 1..LineLen(dir, k) |->
        matrix[CellAt(dir, k, n - 1)[1]][CellAt(dir, k, n - 1)[2]]]

LineRuns(dir, k) ==
    LET rs == find_runs_1d(LineSeq(dir, k), gap_tolerance)
    IN  {rs[n] : n \in 1..Len(rs)}

\* the scan of the direction has just finished: its mask is complete and
\* (for diag_mask and hv_mask) not yet merged with the next direction's
DirDone(dir) ==
    CASE dir = "main" -> pc = "anti"
      [] dir = "anti" -> pc = "rows"
      [] dir = "row" -> pc = "cols"
      [] dir = "col" -> pc = "score"

DirMask(dir) ==
    CASE dir = "main" -> diag_mask
      [] dir = "anti" -> {<<c[1], Cols(matrix) - 1 - c[2]>> : c \in flipped_mask}
      [] dir = "row" -> hv_mask
      [] dir = "col" -> vertical_mask

\* the mask cells of the direction on line k
MaskOnLine(dir, k) ==
    {idx \in 0..(LineLen(dir, k) - 1) : CellAt(dir, k, idx) \in DirMask(dir)}

\* C3: in every scan direction a run [start, end) of a line sets the mask
\* cell of every index start..end-1 of the line when end - start >= min_run
\* and no mask cell when end - start < min_run; nothing else is set.
C3_MinRunFilter ==
    \A dir \in Directions :
        DirDone(dir) =>
            /\ \A k \in LineIds(dir) :
                  LET len == LineLen(dir, k)
                      lineRuns == LineRuns(dir, k)
                      marked == MaskOnLine(dir, k)
                  IN  /\ \A r \in lineRuns :
                            \A idx \in r[1]..(r[2] - 1) :
                                idx < len =>
                                   (idx \in marked <=> r[2] - r[1] >= min_run)
                      /\ \A idx \in marked : \E r \in lineRuns : InRun(r, idx)
            /\ \A c \in DirMask(dir) : OnGrid(c)

C3_Witness ==
    /\ min_run >= 2
    /\ \E dir \in Directions :
          /\ DirDone(dir)
          /\ \E k \in LineIds(dir) : \E r \in LineRuns(dir, k) :
                /\ r[2] - r[1] = min_run
                /\ r[2] <= LineLen(dir, k)
                /\ \A idx \in r[1]..(r[2] - 1) : idx \in MaskOnLine(dir, k)
          /\ \E k \in LineIds(dir) : \E r \in LineRuns(dir, k) :
                /\ r[2] - r[1] = min_run - 1
                /\ r[2] <= LineLen(dir, k)
                /\ \A idx \in r[1]..(r[2] - 1) : idx \notin MaskOnLine(dir, k)

LineOn(dir, k, i) == At(LineSeq(dir, k), i) > 0

\* the on cells p <= q of line k bound a maximal stretch whose interior
\* gaps are at most gap_tolerance off cells long
Stretch(dir, k, p, q) ==
    /\ p <= q /\ LineOn(dir, k, p) /\ LineOn(dir, k, q)
    /\ \A i \in p..(q - gap_tolerance) :
          \E j \in i..(i + gap_tolerance) : LineOn(dir, k, j)
    /\ \A j \in (p - gap_tolerance - 1)..(p - 1) : ~LineOn(dir, k, j)
    /\ \A j \in (q + 1)..(q + gap_tolerance + 1) : ~LineOn(dir, k, j)

\* C5: the length compared against min_run is the span from the first to
\* the last on cell of a stretch: a stretch whose on cells span fewer than
\* min_run positions is never marked, for any gap_tolerance >= 0.
C5_LengthInOriginalIndices ==
    \A dir \in Directions :
        DirDone(dir) =>
            \A k \in LineIds(dir) :
                \A p, q \in 0..(LineLen(dir, k) - 1) :
                    (Stretch(dir, k, p, q) /\ q - p + 1 < min_run) =>
                        \A idx \in p..q : idx \notin MaskOnLine(dir, k)

\* C8: detect_diagonal_segments of the horizontal mirror of a square grid
\* is the horizontal mirror of detect_diagonal_segments of the grid.
C8_MirrorSymmetry ==
    (pc = "rows" /\ mirrored /\ Rows(matrix) = Cols(matrix)) =>
        diag_mask = {<<c[1], Cols(matrix) - 1 - c[2]>> : c \in first_mask}

C8_Witness ==
    /\ pc = "rows"
    /\ mirrored
    /\ Rows(matrix) = Cols(matrix)
    /\ diag_mask # {}
    /\ diag_mask # first_mask

AllCells(v) ==
    \A i \in 0..(Rows(matrix) - 1) : \A j \in 0..(Cols(matrix) - 1) : matrix[i][j] = v

\* C9: the score of an all-zero grid is 0; the score of an all-ones square
\* grid of side size is 1 whenever 1 <= min_run <= size, for every
\* gap_tolerance >= 0, and every cell is marked.
C9_UniformScores ==
    pc = "done" =>
        /\ AllCells(0) => (score[1] = 0 /\ score[2] > 0)
        /\ (AllCells(1) /\ Rows(matrix) = Cols(matrix) /\ min_run <= Rows(matrix)) =>
              /\ score[1] = score[2]
              /\ score[2] > 0
              /\ mask = Cells(Rows(matrix), Cols(matrix))

C9_Witness ==
    /\ pc = "done"
    /\ AllCells(1)
    /\ Rows(matrix) = Cols(matrix)
    /\ Rows(matrix) >= 2
    /\ min_run = Rows(matrix)
    /\ gap_tolerance + 1 > Rows(matrix)
    /\ score[1] = score[2]

C1_EndToEnd ==
    \A p \in 0..4 :
        (/\ matrix = DiagonalStretchGrid(p, 6)
         /\ gap_tolerance = 1
         /\ min_run = 5) =>
            /\ pc \in {"rows", "cols", "score", "done"} =>
                  /\ Cardinality(diag_mask) = 6
                  /\ diag_mask = {<<i, i>> : i \in p..(p + 5)}
            /\ pc = "done" => score[1] * 100 = 6 * score[2]

\* the cells of the grid lying in a run of at least min_run of their line
\* of direction dir
Contribution(dir) ==
    UNION {LET lineRuns == {r \in LineRuns(dir, k) : r[2] - r[1] >= min_run}
           IN  {CellAt(dir, k, idx) :
                   idx \in {i \in 0..(LineLen(dir, k) - 1) :
                               \E r \in lineRuns : InRun(r, i)}} :
           k \in LineIds(dir)}

\* C11: the mask returned by detect_horizontal_vertical_segments is the
\* cell-wise OR of the row scan and the column scan: a cell is true iff it
\* lies in a run of length >= min_run of its row or of its column; the
\* merge inside the innermost loop loses no column cell and clears no row
\* cell.
C11_RowColumnUnion ==
    pc = "score" =>
        LET rowCells == Contribution("row")
            colCells == Contribution("col")
        IN  /\ hv_mask = rowCells \cup colCells
            /\ vertical_mask = colCells

C11_Witness ==
    /\ pc = "score"
    /\ vertical_mask # {}
    /\ LET rowCells == Contribution("row")
       IN  /\ ~(vertical_mask \subseteq rowCells)
           /\ ~(rowCells \subseteq vertical_mask)
           /\ hv_mask = rowCells \cup vertical_mask

InvalidConfiguration == gap_tolerance < 0 \/ min_run <= 0

\* C12: a call of detect_diagonal_segments,
\* detect_horizontal_vertical_segments or ulam_goodness with
\* gap_tolerance < 0 or min_run <= 0 fails and returns no mask and no score.
C12_InvalidConfigurationFails ==
    InvalidConfiguration => pc \notin {"rows", "score", "done"}

====
